---------------------------- MODULE Spec2Model ----------------------------
(***************************************************************************)
(* REFTEK130 read support (obspy/io/reftek/core.py).                       *)
(*                                                                         *)
(* Two programs are modelled:                                              *)
(*   - _read_reftek130 (with _read_into_packetlist, _parse_next_packet and *)
(*     Packet.from_string inlined where it calls them): specification Spec *)
(*   - _is_reftek130: specification SpecSniff                              *)
(*                                                                         *)
(* Conventions.  A byte is a one-character string; the token "0xFF" stands *)
(* for a byte outside the ASCII range.  A Python str/bytes value is a      *)
(* sequence of bytes.  Python's None is the sentinel None below.  Times    *)
(* are counted in half seconds, so that the sample period 1.0 /            *)
(* sampling_rate is a whole number for the sampling rates 1 Hz and 2 Hz.   *)
(*                                                                         *)
(* Outside the model: the packed-decimal header of a block always holds    *)
(* decimal digits and a year other than 00 (Packet.time is never None);    *)
(* the station, network and location fields of the trace header; the       *)
(* order of dict.items() is the insertion order.  UTCDateTime arithmetic,  *)
(* Trace.stats.endtime, the Steim-1 codec and the header tables of         *)
(* header.py are not part of core.py and are modelled from the design      *)
(* description: exact time arithmetic, endtime = starttime + (npts - 1) *  *)
(* delta, a codec that may hand back more samples than a packet declares.  *)
(***************************************************************************)
EXTENDS Integers, Sequences, FiniteSets, TLC

(***************************************************************************)
(* Bounds of the model.                                                    *)
(***************************************************************************)
\* most 1024-byte blocks in a file of the sequencing family
MaxBlocks == 3
\* largest packet sequence number written in a block
MaxSeq == 3
\* most DT packets after the EH packet in a file of the assembly family
MaxData == 2
\* latest packet start time (half seconds)
MaxTime == 2
\* most strides of a sniffed file
MaxStrides == 2

VARIABLES
    file,             \* the file's content: the sequence of its blocks
    component_codes,  \* call parameter of _read_reftek130
    pc,               \* position in _read_reftek130
    fh,               \* number of blocks already read from the file
    packets,          \* local `packets`
    p,                \* local `p`
    dropped_packets,  \* local `dropped_packets`
    eh,               \* local `eh`
    data,             \* local dict `data`: <<[channel_number, tuples]>> in
                      \* insertion order
    channel_idx,      \* position of the `for ... in data.items()` loop
    data_contiguous,  \* local `data_contiguous` of the current channel
    run_idx,          \* position of the `for data_ in data_contiguous` loop
    st,               \* local Stream `st`: the traces built so far
    warnings,         \* the warnings.warn calls made so far, in order
    error,            \* the exception that left the function: kind, message
    retval,           \* the Stream handed to the caller
    sniff             \* state of _is_reftek130

vars == <<file, component_codes, pc, fh, packets, p, dropped_packets, eh,
          data, channel_idx, data_contiguous, run_idx, st, warnings, error,
          retval, sniff>>

readVars == <<file, component_codes, pc, fh, packets, p, dropped_packets, eh,
              data, channel_idx, data_contiguous, run_idx, st, warnings,
              error, retval>>

(***************************************************************************)
(* Values.                                                                 *)
(***************************************************************************)
None == <<"None">>

NoError == [kind |-> "none", msg |-> ""]

EH == <<"E", "H">>
ET == <<"E", "T">>
DT == <<"D", "T">>

PACKETS_IMPLEMENTED == {EH, ET, DT}

AsciiBytes == {"D", "E", "H", "T", "X", "Z", " ", "0", "1", "2", "3", "4",
               "5", "6", "7", "8", "9"}

\* the fixed packet size
PacketSize == 1024

\* size of a trailing partial block, when a file has one (1500 - 1024)
PartialSize == 1500 - PacketSize

\* bytes.decode("ASCII", "ignore"): bytes outside ASCII are left out
DecodeAsciiIgnore(bytes) == SelectSeq(bytes, LAMBDA b : b \in AsciiBytes)

\* bytes.decode("ASCII") raises UnicodeDecodeError on a byte outside ASCII
DecodeAsciiRaises(bytes) == \E i \in 1..Len(bytes) : bytes[i] \notin AsciiBytes

SamplingRates == {1, 2}
Channels == {0, 1}
SampleCounts == {1, 2}

\* 1.0 / sampling_rate, in half seconds
Delta(sampling_rate) == 2 \div sampling_rate

\* UTCDateTime + seconds
TimePlus(t, n, delta) == t + n * delta

NoPacket == [type |-> <<>>, packet_sequence |-> -1, channel_number |-> -1,
             data_format |-> <<>>, time |-> -1, number_of_samples |-> -1,
             sample_data |-> -1, sampling_rate |-> -1, stream_name |-> <<>>,
             channel_code |-> <<>>]

(***************************************************************************)
(* Input files.  A block is the 1024 bytes of one packet, given by the     *)
(* fields Packet.from_string and the PAYLOAD tables read from it; a file   *)
(* is its full blocks plus the size of a trailing partial block.           *)
(* sample_data stands for the raw sample bytes: a token that differs from  *)
(* block to block.                                                         *)
(***************************************************************************)
StreamName == <<"H", "H", " ">>

Block(type, seq) == [NoPacket EXCEPT !.type = type, !.packet_sequence = seq]

EHBlock(seq, rate, codes) ==
    [Block(EH, seq) EXCEPT !.sampling_rate = rate, !.stream_name = StreamName,
                           !.channel_code = codes]

DTBlock(seq, ch, fmt, t, n) ==
    [Block(DT, seq) EXCEPT !.channel_number = ch, !.data_format = fmt,
                           !.time = t, !.number_of_samples = n]

\* the EH channel-code table: no entry set, or the entry of channel 0 set
ChannelCodeTables == {<<None, None>>, <<<<"E", "H", "Z">>, None>>}

\* blocks of the sequencing family: any type, any sequence number
SeqBlocks ==
    {Block(<<"X", "X">>, 1)}
    \cup {EHBlock(s, 1, <<None, None>>) : s \in 1..MaxSeq}
    \cup {Block(ET, s) : s \in 1..MaxSeq}
    \cup {DTBlock(s, 0, <<"C", "0">>, 0, 1) : s \in 1..MaxSeq}

\* DT blocks of the assembly family: any channel, start time, sample count
DataBlocks ==
    {DTBlock(0, 0, <<"1", "6">>, 0, 1)}
    \cup {DTBlock(0, ch, <<"C", "0">>, t, n) :
              ch \in Channels, t \in 0..MaxTime, n \in SampleCounts}

HeaderBlocks ==
    {EHBlock(0, r, c) : r \in SamplingRates, c \in ChannelCodeTables}

SeqsUpTo(S, n) == UNION {[1..k -> S] : k \in 0..n}

\* the recorder numbers the blocks it writes: block i gets sequence number i
Numbered(blocks) ==
    [i \in 1..Len(blocks) |-> [blocks[i] EXCEPT !.packet_sequence = i]]

\* every block carries its own sample bytes
Stamped(blocks) ==
    [i \in 1..Len(blocks) |-> [blocks[i] EXCEPT !.sample_data = i]]

SequencingFiles ==
    {[isfile |-> TRUE, blocks |-> Stamped(b), tail |-> t] :
        b \in SeqsUpTo(SeqBlocks, MaxBlocks), t \in {0, PartialSize}}

AssemblyFiles ==
    {[isfile |-> TRUE,
      blocks |-> Stamped(Numbered(<<h>> \o d \o e)), tail |-> 0] :
        h \in HeaderBlocks, d \in SeqsUpTo(DataBlocks, MaxData),
        e \in {<<>>, <<Block(ET, 0)>>}}

ComponentCodes == {None, <<"Z">>}

Init ==
    /\ file \in SequencingFiles \cup AssemblyFiles
    /\ component_codes \in ComponentCodes
    /\ pc = "read"
    /\ fh = 0
    /\ packets = <<>>
    /\ p = NoPacket
    /\ dropped_packets = 0
    /\ eh = NoPacket
    /\ data = <<>>
    /\ channel_idx = 0
    /\ data_contiguous = <<>>
    /\ run_idx = 0
    /\ st = <<>>
    /\ warnings = <<>>
    /\ error = NoError
    /\ retval = <<>>
    /\ sniff = [pc |-> "idle", fp |-> 0, reads |-> 0, result |-> FALSE]

Warn(kind, n) == warnings' = Append(warnings, [kind |-> kind, n |-> n])

Raise(kind, msg) == /\ pc' = "raised"
                    /\ error' = [kind |-> kind, msg |-> msg]

(***************************************************************************)
(* _read_into_packetlist / _parse_next_packet / Packet.from_string         *)
(***************************************************************************)
\* Packet.from_string(data) raises: the type field is not ASCII, or
\* Packet.__init__ rejects the type
FromStringRaises(block) ==
    \/ DecodeAsciiRaises(block.type)
    \/ block.type \notin PACKETS_IMPLEMENTED

\* one pass of the loop of _read_into_packetlist: _parse_next_packet(fh),
\* then `while packet:` appends the packet or leaves the loop
ReadNextPacket ==
    /\ pc = "read"
    /\ IF fh < Len(file.blocks)
       THEN /\ fh' = fh + 1
            /\ IF FromStringRaises(file.blocks[fh + 1])
               THEN /\ Warn("parse_exception", 0)
                    /\ pc' = "sort"
                    /\ UNCHANGED packets
               ELSE /\ packets' = Append(packets, file.blocks[fh + 1])
                    /\ UNCHANGED <<pc, warnings>>
       ELSE /\ IF file.tail > 0
               THEN Warn("incomplete_packet", 0)
               ELSE UNCHANGED warnings
            /\ pc' = "sort"
            /\ UNCHANGED <<fh, packets>>
    /\ UNCHANGED <<file, component_codes, p, dropped_packets, eh, data,
                   channel_idx, data_contiguous, run_idx, st, error, retval,
                   sniff>>

(***************************************************************************)
(* _read_reftek130: sorting and the check of the packet sequence           *)
(***************************************************************************)
RECURSIVE InsertBySequence(_, _)
\* x goes behind every packet whose key is not larger: sorted() is stable
InsertBySequence(x, s) ==
    IF s = <<>> THEN <<x>>
    ELSE IF x.packet_sequence < Head(s).packet_sequence
         THEN <<x>> \o s
         ELSE <<Head(s)>> \o InsertBySequence(x, Tail(s))

RECURSIVE SortedByPacketSequence(_)
\* sorted(packets, key=lambda x: x.packet_sequence)
SortedByPacketSequence(s) ==
    IF s = <<>> THEN <<>>
    ELSE InsertBySequence(s[Len(s)],
                          SortedByPacketSequence(SubSeq(s, 1, Len(s) - 1)))

\* np.diff
Diff(xs) == [i \in 1..(Len(xs) - 1) |-> xs[i + 1] - xs[i]]

SeqMax(xs) == CHOOSE m \in {xs[i] : i \in 1..Len(xs)} :
                  \A i \in 1..Len(xs) : xs[i] <= m

\* np.bincount of non-negative integers: how often 0, 1, .., max(xs) occur;
\* the empty array for no input
BinCount(xs) ==
    IF xs = <<>> THEN <<>>
    ELSE [v \in 1..(SeqMax(xs) + 1) |->
              Cardinality({i \in 1..Len(xs) : xs[i] = v - 1})]

\* np.testing.assert_array_equal(bincount, [0, len(packets) - 1]) passes:
\* same shape, same values
SequenceUninterrupted(ps) ==
    BinCount(Diff([i \in 1..Len(ps) |-> ps[i].packet_sequence]))
        = <<0, Len(ps) - 1>>

SortPackets ==
    /\ pc = "sort"
    /\ packets' = SortedByPacketSequence(packets)
    /\ pc' = "check"
    /\ UNCHANGED <<file, component_codes, fh, p, dropped_packets, eh, data,
                   channel_idx, data_contiguous, run_idx, st, warnings,
                   error, retval, sniff>>

CheckSequence ==
    /\ pc = "check"
    /\ IF packets = <<>>
       THEN Raise("Exception", "Could not extract any data packets")
       ELSE IF ~SequenceUninterrupted(packets)
            THEN Raise("NotImplementedError",
                       "non-contiguous packet sequences")
            ELSE /\ pc' = "pop_first"
                 /\ UNCHANGED error
    /\ UNCHANGED <<file, component_codes, fh, packets, p, dropped_packets,
                   eh, data, channel_idx, data_contiguous, run_idx, st,
                   warnings, retval, sniff>>

(***************************************************************************)
(* _read_reftek130: drop everything up to the first EH packet              *)
(***************************************************************************)
PopFirst ==
    /\ pc = "pop_first"
    /\ p' = Head(packets)
    /\ packets' = Tail(packets)
    /\ dropped_packets' = 0
    /\ pc' = "skip"
    /\ UNCHANGED <<file, component_codes, fh, eh, data, channel_idx,
                   data_contiguous, run_idx, st, warnings, error, retval,
                   sniff>>

\* one pass of `while p.type != "EH"`; packets.pop(0) of an empty list
\* raises IndexError
DropPacket ==
    /\ pc = "skip"
    /\ p.type # EH
    /\ IF packets = <<>>
       THEN /\ Raise("IndexError", "pop from empty list")
            /\ UNCHANGED <<p, packets, dropped_packets>>
       ELSE /\ p' = Head(packets)
            /\ packets' = Tail(packets)
            /\ dropped_packets' = dropped_packets + 1
            /\ UNCHANGED <<pc, error>>
    /\ UNCHANGED <<file, component_codes, fh, eh, data, channel_idx,
                   data_contiguous, run_idx, st, warnings, retval, sniff>>

\* the warning is missed when one packet was dropped
WarnsDropped_MoreThanOne(dropped) == dropped > 1

\* `if dropped_packets:`
WarnsDropped(dropped) == dropped # 0

CaptureHeader ==
    /\ pc = "skip"
    /\ p.type = EH
    /\ IF WarnsDropped(dropped_packets)
       THEN Warn("dropped", dropped_packets)
       ELSE UNCHANGED warnings
    /\ eh' = p
    /\ data' = <<>>
    /\ pc' = "pop_data"
    /\ UNCHANGED <<file, component_codes, fh, packets, p, dropped_packets,
                   channel_idx, data_contiguous, run_idx, st, error, retval,
                   sniff>>

(***************************************************************************)
(* _read_reftek130: the DT packets per channel number                      *)
(***************************************************************************)
\* p = packets.pop(0) behind the EH packet
PopData ==
    /\ pc = "pop_data"
    /\ IF packets = <<>>
       THEN /\ Raise("IndexError", "pop from empty list")
            /\ UNCHANGED <<p, packets>>
       ELSE /\ p' = Head(packets)
            /\ packets' = Tail(packets)
            /\ pc' = "collect"
            /\ UNCHANGED error
    /\ UNCHANGED <<file, component_codes, fh, dropped_packets, eh, data,
                   channel_idx, data_contiguous, run_idx, st, warnings,
                   retval, sniff>>

\* the encoding is not looked at
FormatSupported_Any(pkt) == TRUE

\* `p.data_format != "C0"` is false
FormatSupported(pkt) == pkt.data_format = <<"C", "0">>

\* (p.time, p.packet_sequence, p.number_of_samples, p.sample_data)
DataTuple(pkt) ==
    <<pkt.time, pkt.packet_sequence, pkt.number_of_samples, pkt.sample_data>>

\* data[channel_number] = [tuple]: the tuples collected before are lost
SetDefaultAppend_Overwrite(d, channel_number, tuple) ==
    IF \E i \in 1..Len(d) : d[i].channel_number = channel_number
    THEN [i \in 1..Len(d) |->
             IF d[i].channel_number = channel_number
             THEN [d[i] EXCEPT !.tuples = <<tuple>>]
             ELSE d[i]]
    ELSE Append(d, [channel_number |-> channel_number, tuples |-> <<tuple>>])

\* data.setdefault(channel_number, []).append(tuple)
SetDefaultAppend(d, channel_number, tuple) ==
    IF \E i \in 1..Len(d) : d[i].channel_number = channel_number
    THEN [i \in 1..Len(d) |->
             IF d[i].channel_number = channel_number
             THEN [d[i] EXCEPT !.tuples = Append(@, tuple)]
             ELSE d[i]]
    ELSE Append(d, [channel_number |-> channel_number, tuples |-> <<tuple>>])

\* one pass of `while p.type == "DT"`
CollectData ==
    /\ pc = "collect"
    /\ p.type = DT
    /\ IF ~FormatSupported(p)
       THEN /\ Raise("NotImplementedError", "data encoding not implemented")
            /\ UNCHANGED <<p, packets, data>>
       ELSE /\ data' = SetDefaultAppend(data, p.channel_number, DataTuple(p))
            /\ IF packets = <<>>
               THEN /\ pc' = "trailer"
                    /\ UNCHANGED <<p, packets>>
               ELSE /\ p' = Head(packets)
                    /\ packets' = Tail(packets)
                    /\ UNCHANGED pc
            /\ UNCHANGED error
    /\ UNCHANGED <<file, component_codes, fh, dropped_packets, eh,
                   channel_idx, data_contiguous, run_idx, st, warnings,
                   retval, sniff>>

\* the loop ends at a packet that is no DT packet
EndOfData ==
    /\ pc = "collect"
    /\ p.type # DT
    /\ pc' = "trailer"
    /\ UNCHANGED <<file, component_codes, fh, packets, p, dropped_packets,
                   eh, data, channel_idx, data_contiguous, run_idx, st,
                   warnings, error, retval, sniff>>

\* expecting an ET packet at the end; st = Stream()
CheckTrailer ==
    /\ pc = "trailer"
    /\ IF p.type # ET
       THEN Warn("truncated", 0)
       ELSE UNCHANGED warnings
    /\ st' = <<>>
    /\ channel_idx' = 0
    /\ pc' = "channel"
    /\ UNCHANGED <<file, component_codes, fh, packets, p, dropped_packets,
                   eh, data, data_contiguous, run_idx, error, retval, sniff>>

(***************************************************************************)
(* _read_reftek130: contiguous blocks of one channel                       *)
(***************************************************************************)
\* Python's order of the tuples (time, packet_sequence, npts, sample_data)
TupleLess(a, b) ==
    \/ a[1] < b[1]
    \/ a[1] = b[1] /\ a[2] < b[2]
    \/ a[1] = b[1] /\ a[2] = b[2] /\ a[3] < b[3]
    \/ a[1] = b[1] /\ a[2] = b[2] /\ a[3] = b[3] /\ a[4] < b[4]

RECURSIVE InsertTuple(_, _)
InsertTuple(x, s) ==
    IF s = <<>> THEN <<x>>
    ELSE IF TupleLess(x, Head(s))
         THEN <<x>> \o s
         ELSE <<Head(s)>> \o InsertTuple(x, Tail(s))

RECURSIVE SortedTuples(_)
\* sorted(data_)
SortedTuples(s) ==
    IF s = <<>> THEN <<>>
    ELSE InsertTuple(s[Len(s)], SortedTuples(SubSeq(s, 1, Len(s) - 1)))

\* `t > t_last + npts_last * delta`: an overlap does not split
GapOrOverlap_GapOnly(t, t_last, npts_last, delta) ==
    t > TimePlus(t_last, npts_last, delta)

\* `t != t_last + npts_last * delta`
GapOrOverlap(t, t_last, npts_last, delta) ==
    t # TimePlus(t_last, npts_last, delta)

RECURSIVE SplitLoop(_, _, _, _)
\* the loop `while data_:` and the append behind it
SplitLoop(data_, chunk_list, contiguous, delta) ==
    IF data_ = <<>> THEN Append(contiguous, chunk_list)
    ELSE LET chunk == Head(data_)
             last == chunk_list[Len(chunk_list)]
         IN  IF chunk_list # <<>>
                /\ GapOrOverlap(chunk[1], last[1], last[3], delta)
             THEN SplitLoop(Tail(data_), <<chunk>>,
                            Append(contiguous, chunk_list), delta)
             ELSE SplitLoop(Tail(data_), Append(chunk_list, chunk),
                            contiguous, delta)

\* data_contiguous of the sorted tuples of one channel (never empty: a
\* channel is in `data` once it has a tuple)
SplitContiguous(data_, delta) ==
    SplitLoop(Tail(data_), <<Head(data_)>>, <<>>, delta)

\* the next pass of `for channel_number, data_ in data.items()`, or
\* `return st` behind the loop.  The loop runs over the dict built from the
\* DT packets; the name `data` is bound to a new list inside the loop, the
\* dict is what the variable data keeps.
NextChannel ==
    /\ pc = "channel"
    /\ IF channel_idx < Len(data)
       THEN /\ channel_idx' = channel_idx + 1
            /\ data_contiguous' =
                   SplitContiguous(SortedTuples(data[channel_idx + 1].tuples),
                                   Delta(eh.sampling_rate))
            /\ run_idx' = 0
            /\ pc' = "trace"
            /\ UNCHANGED retval
       ELSE /\ retval' = st
            /\ pc' = "returned"
            /\ UNCHANGED <<channel_idx, data_contiguous, run_idx>>
    /\ UNCHANGED <<file, component_codes, fh, packets, p, dropped_packets,
                   eh, data, st, warnings, error, sniff>>

(***************************************************************************)
(* _read_reftek130: each contiguous block read into one trace              *)
(***************************************************************************)
RECURSIVE SumOf(_)
SumOf(ns) == IF ns = <<>> THEN 0 ELSE Head(ns) + SumOf(Tail(ns))

\* the sample counts _unpack_steim_1 may hand back for a packet declaring
\* npts_ samples: the codec is an opaque function of the sample bytes
UnpackSteim1Lengths(npts_) == {npts_, npts_ + 1}

\* the lengths of the pieces _unpack_steim_1 may hand back for a block
UnpackedLengths(data_) ==
    {lens \in [1..Len(data_) ->
                  UNION {UnpackSteim1Lengths(data_[i][3]) :
                             i \in 1..Len(data_)}] :
        \A i \in 1..Len(data_) : lens[i] \in UnpackSteim1Lengths(data_[i][3])}

\* the pieces of a block, each with the bytes it was unpacked from and the
\* number of samples unpacked: np.hstack keeps their order
Pieces(data_, lens) ==
    [i \in 1..Len(data_) |-> [sample_data |-> data_[i][4], n |-> lens[i]]]

\* len(data) of a trace: tr.stats.npts
DataLen(pieces) == SumOf([i \in 1..Len(pieces) |-> pieces[i].n])

\* tr.stats.endtime of a Trace: starttime + (npts - 1) * delta
Endtime(tr) ==
    TimePlus(tr.starttime, DataLen(tr.data) - 1, Delta(tr.sampling_rate))

RECURSIVE Strip(_)
\* str.strip()
Strip(str) ==
    IF str = <<>> THEN <<>>
    ELSE IF Head(str) = " " THEN Strip(Tail(str))
    ELSE IF str[Len(str)] = " " THEN Strip(SubSeq(str, 1, Len(str) - 1))
    ELSE str

DecimalDigits == <<"0", "1", "2", "3", "4", "5", "6", "7", "8", "9">>

RECURSIVE Str(_)
\* str(channel_number)
Str(n) ==
    IF n < 10 THEN <<DecimalDigits[n + 1]>>
    ELSE Str(n \div 10) \o <<DecimalDigits[(n % 10) + 1]>>

\* the EH table is asked before the component codes
NamingTier_TableFirst(codes, header, channel_number) ==
    IF header.channel_code[channel_number + 1] # None THEN "channel_code"
    ELSE IF codes # None THEN "component_codes"
         ELSE "fallback"

\* which branch of the if/elif/else names the channel
NamingTier(codes, header, channel_number) ==
    IF codes # None THEN "component_codes"
    ELSE IF header.channel_code[channel_number + 1] # None
         THEN "channel_code"
         ELSE "fallback"

\* component_codes[channel_number] raises IndexError
NamingRaises(codes, header, channel_number) ==
    /\ NamingTier(codes, header, channel_number) = "component_codes"
    /\ channel_number + 1 > Len(codes)

\* tr.stats.channel
ChannelCode(codes, header, channel_number) ==
    CASE NamingTier(codes, header, channel_number) = "component_codes" ->
             Strip(header.stream_name) \o <<codes[channel_number + 1]>>
      [] NamingTier(codes, header, channel_number) = "channel_code" ->
             header.channel_code[channel_number + 1]
      [] OTHER -> Strip(header.stream_name) \o Str(channel_number)

\* the assertions are not made
Consistent_Unchecked(npts, tr, t_last, npts_last, delta) == TRUE

\* the three assertions on the trace of a block
Consistent(npts, tr, t_last, npts_last, delta) ==
    /\ npts = DataLen(tr.data)
    /\ Endtime(tr) = TimePlus(t_last, npts_last - 1, delta)
    /\ Endtime(tr) = TimePlus(tr.starttime, npts - 1, delta)

\* one pass of `for data_ in data_contiguous`
ReadTrace ==
    /\ pc = "trace"
    /\ run_idx < Len(data_contiguous)
    /\ LET data_ == data_contiguous[run_idx + 1]
           channel_number == data[channel_idx].channel_number
           delta == Delta(eh.sampling_rate)
           npts == SumOf([i \in 1..Len(data_) |-> data_[i][3]])
           last == data_[Len(data_)]
       IN  \E lens \in UnpackedLengths(data_) :
                 LET tr == [channel_number |-> channel_number,
                            sampling_rate |-> eh.sampling_rate,
                            starttime |-> data_[1][1],
                            data |-> Pieces(data_, lens),
                            channel |->
                                IF NamingRaises(component_codes, eh,
                                                channel_number)
                                THEN <<>>
                                ELSE ChannelCode(component_codes, eh,
                                                 channel_number)]
                 IN  IF NamingRaises(component_codes, eh, channel_number)
                     THEN /\ Raise("IndexError", "list index out of range")
                          /\ UNCHANGED <<run_idx, st, warnings>>
                     ELSE /\ IF NamingTier(component_codes, eh,
                                           channel_number) = "fallback"
                             THEN Warn("fallback", 0)
                             ELSE UNCHANGED warnings
                          /\ IF Consistent(npts, tr, last[1], last[3], delta)
                             THEN /\ st' = Append(st, tr)
                                  /\ run_idx' = run_idx + 1
                                  /\ UNCHANGED <<pc, error>>
                             ELSE /\ Raise("Exception",
                                           "inconsistent endtime or npts")
                                  /\ UNCHANGED <<run_idx, st>>
    /\ UNCHANGED <<file, component_codes, fh, packets, p, dropped_packets,
                   eh, data, channel_idx, data_contiguous, retval, sniff>>

\* the loop over data_contiguous is through
ChannelDone ==
    /\ pc = "trace"
    /\ run_idx = Len(data_contiguous)
    /\ pc' = "channel"
    /\ UNCHANGED <<file, component_codes, fh, packets, p, dropped_packets,
                   eh, data, channel_idx, data_contiguous, run_idx, st,
                   warnings, error, retval, sniff>>

Next ==
    \/ ReadNextPacket
    \/ SortPackets
    \/ CheckSequence
    \/ PopFirst
    \/ DropPacket
    \/ CaptureHeader
    \/ PopData
    \/ CollectData
    \/ EndOfData
    \/ CheckTrailer
    \/ NextChannel
    \/ ReadTrace
    \/ ChannelDone

Spec == Init /\ [][Next]_vars

(***************************************************************************)
(* _is_reftek130                                                           *)
(***************************************************************************)
\* the type fields a sniffed file may hold at the start of a stride
SniffTypes == {EH, ET, DT, <<"X", "X">>, <<"E", "0xFF">>, <<"0xFF", "0xFF">>}

SniffFiles ==
    {[isfile |-> i, blocks |-> b, tail |-> t] :
        i \in BOOLEAN,
        b \in SeqsUpTo({Block(ty, 0) : ty \in SniffTypes}, MaxStrides),
        t \in {0, PartialSize}}

\* os.stat(filename).st_size
FileSize(f) == PacketSize * Len(f.blocks) + f.tail

\* fp.read(2) at offset fp, the start of a stride: nothing at end of file
Read2(f, fp) ==
    IF fp >= FileSize(f) THEN <<>> ELSE f.blocks[(fp \div PacketSize) + 1].type

InitSniff ==
    /\ file \in SniffFiles
    /\ sniff = [pc |-> "start", fp |-> 0, reads |-> 0, result |-> FALSE]
    /\ component_codes = None
    /\ pc = "idle"
    /\ fh = 0
    /\ packets = <<>>
    /\ p = NoPacket
    /\ dropped_packets = 0
    /\ eh = NoPacket
    /\ data = <<>>
    /\ channel_idx = 0
    /\ data_contiguous = <<>>
    /\ run_idx = 0
    /\ st = <<>>
    /\ warnings = <<>>
    /\ error = NoError
    /\ retval = <<>>

\* the checks before the file is opened
SniffSize ==
    /\ sniff.pc = "start"
    /\ IF ~file.isfile
       THEN sniff' = [sniff EXCEPT !.pc = "done", !.result = FALSE]
       ELSE IF FileSize(file) < PacketSize \/ FileSize(file) % PacketSize # 0
            THEN sniff' = [sniff EXCEPT !.pc = "done", !.result = FALSE]
            ELSE sniff' = [sniff EXCEPT !.pc = "scan"]
    /\ UNCHANGED readVars

\* one pass of `while True`
SniffType ==
    /\ sniff.pc = "scan"
    /\ LET packet_type == DecodeAsciiIgnore(Read2(file, sniff.fp))
           reads == sniff.reads + (IF sniff.fp < FileSize(file) THEN 1 ELSE 0)
       IN  IF packet_type = <<>>
           THEN sniff' = [sniff EXCEPT !.pc = "done", !.result = TRUE,
                                       !.reads = reads]
           ELSE IF packet_type \notin PACKETS_IMPLEMENTED
                THEN sniff' = [sniff EXCEPT !.pc = "done", !.result = FALSE,
                                            !.reads = reads]
                ELSE sniff' = [sniff EXCEPT !.fp = sniff.fp + 2 + 1022,
                                            !.reads = reads]
    /\ UNCHANGED readVars

NextSniff ==
    \/ SniffSize
    \/ SniffType

SpecSniff == InitSniff /\ [][NextSniff]_vars

(***************************************************************************)
(* Properties.  What follows states the properties checked of the code     *)
(* above; the definitions used to state them read the input file, not the  *)
(* locals of the program.                                                  *)
(***************************************************************************)
Terminated == pc \in {"returned", "raised"}

HasWarning(kind) == \E i \in 1..Len(warnings) : warnings[i].kind = kind

\* some pair of consecutive sequence numbers differs by a value other than 1
SomeStepNotOne(ps) ==
    \E i \in 1..(Len(ps) - 1) :
        ps[i + 1].packet_sequence - ps[i].packet_sequence # 1

\* C1: for every non-empty sorted packet list, of any length, the check of
\* the packet sequence raises the non-contiguous-sequence error
\* (NotImplementedError) if and only if some pair of consecutive sequence
\* numbers differs by a value other than 1; otherwise decoding proceeds to
\* the header scan.
C1_NonContiguousIffStepNotOne ==
    [][(pc = "check" /\ packets # <<>>) =>
          /\ (pc' = "raised" /\ error'.kind = "NotImplementedError")
                 <=> SomeStepNotOne(packets)
          /\ ~SomeStepNotOne(packets) => pc' = "pop_first"]_vars

\* a block Packet.from_string decodes
Decodable(block) == block.type \in {EH, ET, DT}

\* C2: _read_into_packetlist returns every decodable packet of the file, in
\* file order: a block whose decoding raises is dropped on its own and the
\* decodable blocks after it are still read.
C2_EveryDecodablePacketRead ==
    pc = "sort" => packets = SelectSeq(file.blocks, Decodable)

\* C6: _is_reftek130 returns True if and only if the path is a regular file
\* whose size is a positive multiple of 1024 and the type field of every
\* stride is a recognized packet type; a size that is no multiple of 1024 is
\* rejected without reading any type field.
C6_SniffAcceptsIffAllTypesRecognized ==
    sniff.pc = "done" =>
        /\ sniff.result <=>
               /\ file.isfile
               /\ file.tail = 0
               /\ Len(file.blocks) >= 1
               /\ \A i \in 1..Len(file.blocks) :
                      file.blocks[i].type \in {EH, ET, DT}
        /\ file.tail # 0 => sniff.reads = 0

(***************************************************************************)
(* The packet list of the input file, as the header scan gets it.          *)
(***************************************************************************)
\* the blocks before the first block that does not decode
ReadBlocks ==
    LET bad == {i \in 1..Len(file.blocks) : ~Decodable(file.blocks[i])}
        n == IF bad = {} THEN Len(file.blocks)
             ELSE (CHOOSE i \in bad : \A j \in bad : i <= j) - 1
    IN  SubSeq(file.blocks, 1, n)

\* the blocks read, in the order of their sequence numbers (which are
\* first, first + 1, .. once the check of the packet sequence has passed)
PacketList ==
    LET ps == ReadBlocks
        first == CHOOSE m \in {ps[i].packet_sequence : i \in 1..Len(ps)} :
                     \A i \in 1..Len(ps) : m <= ps[i].packet_sequence
    IN  [k \in 1..Len(ps) |->
            ps[CHOOSE i \in 1..Len(ps) :
                   ps[i].packet_sequence = first + k - 1]]

\* the decode got past the check of the packet sequence
ScanReached ==
    /\ pc \notin {"idle", "read", "sort", "check"}
    /\ ~(pc = "raised" /\ error.msg \in {"Could not extract any data packets",
                                         "non-contiguous packet sequences"})

\* the places of the EH packets in a packet list
HeaderIndexes(pl) == {i \in 1..Len(pl) : pl[i].type = EH}

\* place of the first EH packet in a packet list
FirstHeader(pl) ==
    CHOOSE i \in HeaderIndexes(pl) : \A j \in HeaderIndexes(pl) : i <= j

\* places of the DT packets that directly follow the EH packet at place h
DataRun(pl, h) ==
    {i \in (h + 1)..Len(pl) : \A j \in (h + 1)..i : pl[j].type = DT}

DroppedWarnings == SelectSeq(warnings, LAMBDA w : w.kind = "dropped")

\* C7: a DT packet consumed in the DT run behind the EH packet whose sample
\* encoding is not "C0" aborts the decode with NotImplementedError before
\* any trace is built, and no trace list is handed to the caller.
C7_UnsupportedEncodingAborts ==
    [][/\ (pc = "collect" /\ p.type = DT /\ p.data_format # <<"C", "0">>) =>
              /\ pc' = "raised"
              /\ error'.kind = "NotImplementedError"
              /\ st' = <<>>
       /\ pc' = "raised" => retval' = <<>>
       /\ pc = "raised" => pc' = "raised"]_vars

\* C7 witness: the second DT packet of the run has an unsupported encoding
\* and the decode has raised
C7_Witness ==
    /\ pc = "raised"
    /\ error.kind = "NotImplementedError"
    /\ p.type = DT
    /\ p.data_format = <<"1", "6">>
    /\ data # <<>>

\* C8: with no EH packet in the list the header scan gets, the decode ends
\* in an error that is no NotImplementedError and hands back no traces;
\* with an EH packet, the session header is the first EH packet in sequence
\* order, and the dropped-packets warning is given exactly when a packet
\* precedes it, with the number of packets that precede it.
C8_HeaderScan ==
    /\ pc = "pop_first" => packets = PacketList
    /\ pc \in {"read", "sort", "check", "pop_first", "skip"} =>
           DroppedWarnings = <<>>
    /\ ScanReached =>
           LET pl == PacketList
               h == FirstHeader(pl)
           IN  IF HeaderIndexes(pl) = {}
               THEN /\ pc \in {"pop_first", "skip", "raised"}
                    /\ retval = <<>>
                    /\ pc = "raised" =>
                           error.kind \notin {"none", "NotImplementedError"}
               ELSE pc \notin {"pop_first", "skip"} =>
                        /\ eh = pl[h]
                        /\ h > 1 =>
                               DroppedWarnings =
                                   <<[kind |-> "dropped", n |-> h - 1]>>
                        /\ h = 1 => DroppedWarnings = <<>>

\* C8 witness: two packets were dropped before the EH packet
C8_Witness ==
    /\ ScanReached
    /\ HeaderIndexes(PacketList) # {}
    /\ FirstHeader(PacketList) = 3
    /\ eh = PacketList[3]
    /\ DroppedWarnings # <<>>

\* the packet behind the DT run is an ET packet
TrailerFollows(pl, h) ==
    LET next == h + Cardinality(DataRun(pl, h)) + 1
    IN  next <= Len(pl) /\ pl[next].type = ET

\* the sample bytes that went into the traces of a stream
Contributions(stream) ==
    UNION {{stream[t].data[k].sample_data : k \in 1..Len(stream[t].data)} :
               t \in 1..Len(stream)}

\* the places <<trace, piece>> of a stream
Places(stream) ==
    UNION {{<<t, k>> : k \in 1..Len(stream[t].data)} : t \in 1..Len(stream)}

\* C9: the trailer check is non-fatal: for a packet list with an EH packet
\* (and no fatal encoding, naming or consistency error), when the DT run is
\* not followed by an ET packet - another type follows, or the list ends
\* behind the last DT packet or directly behind the EH packet - the decode
\* warns of possibly truncated data, raises no error and returns the traces
\* of the DT packets collected; when an ET packet follows, it does not warn.
C9_TrailerCheckNonFatal ==
    (/\ Terminated
     /\ ScanReached
     /\ HeaderIndexes(PacketList) # {}
     /\ error.msg \notin {"data encoding not implemented",
                          "list index out of range",
                          "inconsistent endtime or npts"}) =>
        LET pl == PacketList
            h == FirstHeader(pl)
        IN  /\ ~TrailerFollows(pl, h) =>
                   /\ HasWarning("truncated")
                   /\ pc = "returned"
                   /\ Contributions(retval)
                          = {pl[i].sample_data : i \in DataRun(pl, h)}
            /\ TrailerFollows(pl, h) => ~HasWarning("truncated")

\* C10: on every successful return the traces partition the DT packets of
\* the DT run behind the first EH packet: each of them contributes to
\* exactly one trace, a trace of its own channel number; within a trace the
\* packets are in ascending start-time order; no packet outside the run
\* contributes to a trace.
C10_TracesPartitionDataRun ==
    pc = "returned" =>
        LET pl == PacketList
            run == DataRun(pl, FirstHeader(pl))
        IN  /\ \A i \in run :
                   /\ Cardinality(
                          {tk \in Places(retval) :
                              retval[tk[1]].data[tk[2]].sample_data
                                  = pl[i].sample_data}) = 1
                   /\ \A t \in 1..Len(retval) :
                          pl[i].sample_data \in Contributions(<<retval[t]>>)
                              => retval[t].channel_number
                                     = pl[i].channel_number
            /\ Contributions(retval) \subseteq {pl[i].sample_data : i \in run}
            /\ \A t \in 1..Len(retval) :
                   \A k \in 1..(Len(retval[t].data) - 1) :
                       file.blocks[retval[t].data[k].sample_data].time
                           <= file.blocks[retval[t].data[k + 1].sample_data]
                                  .time

\* C10 witness: a stream is returned for a list with a DT packet before
\* the EH packet and a DT packet in the run behind it
C10_Witness ==
    /\ pc = "returned"
    /\ FirstHeader(PacketList) > 1
    /\ PacketList[1].type = DT
    /\ DataRun(PacketList, FirstHeader(PacketList)) # {}
    /\ Contributions(retval) # {}

(***************************************************************************)
(* Properties of the traces.                                               *)
(***************************************************************************)
RECURSIVE Flatten(_)
Flatten(lists) ==
    IF lists = <<>> THEN <<>> ELSE Head(lists) \o Flatten(Tail(lists))

\* the sample period of the session, in half seconds: 2 at 1 Hz, 1 at 2 Hz
Period == IF eh.sampling_rate = 1 THEN 2 ELSE 1

\* places k of a list of tuples where tuple k + 1 does not start at the
\* start of tuple k plus (its sample count x sample period)
Unequal(tuples) ==
    {k \in 1..(Len(tuples) - 1) :
        tuples[k + 1][1] # tuples[k][1] + tuples[k][3] * Period}

\* the places of a list of runs behind which a new run starts
Boundaries(runs) ==
    {Len(Flatten(SubSeq(runs, 1, r))) : r \in 1..(Len(runs) - 1)}

\* C3: per channel, with the tuples sorted by start time, a new run starts
\* at a tuple if and only if its start time differs from the start time of
\* the tuple before it plus (that tuple's sample count x sample period), be
\* it later or earlier; the channel gets one trace more than it has such
\* pairs.
C3_RunSplitsIffUnequalGap ==
    /\ pc = "trace" =>
           LET tuples == Flatten(data_contiguous)
           IN  /\ tuples = SortedTuples(data[channel_idx].tuples)
               /\ \A k \in 1..(Len(tuples) - 1) :
                      tuples[k][1] <= tuples[k + 1][1]
               /\ \A r \in 1..Len(data_contiguous) :
                      data_contiguous[r] # <<>>
               /\ Boundaries(data_contiguous) = Unequal(tuples)
               /\ Len(data_contiguous) = 1 + Cardinality(Unequal(tuples))
    /\ pc = "returned" =>
           \A c \in 1..Len(data) :
               Cardinality({t \in 1..Len(retval) :
                               retval[t].channel_number
                                   = data[c].channel_number})
                   = 1 + Cardinality(Unequal(SortedTuples(data[c].tuples)))

\* C3 witness: a channel with two packets that overlap comes back as two
\* traces
C3_Witness ==
    /\ pc = "returned"
    /\ \E c \in 1..Len(data) :
           /\ Len(data[c].tuples) = 2
           /\ LET tuples == SortedTuples(data[c].tuples)
              IN  tuples[2][1] < tuples[1][1] + tuples[1][3] * Period
           /\ Cardinality({t \in 1..Len(retval) :
                              retval[t].channel_number
                                  = data[c].channel_number}) = 2

FallbackWarnings(w) == Len(SelectSeq(w, LAMBDA x : x.kind = "fallback"))

\* the stream label without the blanks around it
Label == <<"H", "H">>

\* C4: the channel code of a trace of channel c is the stripped stream label
\* followed by component_codes[c] when component codes were given, whatever
\* the EH table holds; else the EH table entry of c when it is not null;
\* else the stripped stream label followed by the decimal c; and the
\* fallback warning is given in exactly this third case.
C4_ChannelNamingPriority ==
    [][/\ \A t \in 1..Len(st') :
              LET c == st'[t].channel_number
              IN  st'[t].channel =
                      IF component_codes # None
                      THEN Label \o <<component_codes[c + 1]>>
                      ELSE IF eh.channel_code[c + 1] # None
                           THEN eh.channel_code[c + 1]
                           ELSE Label \o <<DecimalDigits[c + 1]>>
       /\ LET naming == pc = "trace" /\ run_idx < Len(data_contiguous)
              third == /\ component_codes = None
                       /\ eh.channel_code[data[channel_idx].channel_number + 1]
                              = None
          IN  FallbackWarnings(warnings') =
                  FallbackWarnings(warnings)
                      + (IF naming /\ third THEN 1 ELSE 0)]_vars

\* C4 witness: a trace of channel 0 named by component codes although the
\* EH table has an entry for channel 0
C4_Witness ==
    /\ pc = "returned"
    /\ component_codes # None
    /\ eh.channel_code[1] # None
    /\ \E t \in 1..Len(retval) :
           /\ retval[t].channel_number = 0
           /\ retval[t].channel = <<"H", "H", "Z">>

\* the blocks whose sample bytes went into a trace, in the order of the
\* pieces
PacketsOf(tr) == [k \in 1..Len(tr.data) |-> file.blocks[tr.data[k].sample_data]]

\* C5: every trace has as many samples as its DT packets declare together,
\* and its end time is both the start time of its last packet plus (that
\* packet's sample count - 1) x sample period and its own start time plus
\* (its sample count - 1) x sample period; a run that fails one of these
\* gives no trace: the decode raises instead and returns nothing.
C5_TracesConsistent ==
    /\ \A t \in 1..Len(st) :
           LET tr == st[t]
               pkts == PacketsOf(tr)
               declared == SumOf([k \in 1..Len(pkts) |->
                                     pkts[k].number_of_samples])
               samples == SumOf([k \in 1..Len(tr.data) |-> tr.data[k].n])
               last == pkts[Len(pkts)]
               endtime == tr.starttime + (samples - 1) * Period
           IN  /\ samples = declared
               /\ endtime = last.time + (last.number_of_samples - 1) * Period
               /\ endtime = tr.starttime + (declared - 1) * Period
               /\ tr.starttime = pkts[1].time
    /\ pc = "raised" => retval = <<>>
    /\ pc = "returned" => retval = st
    /\ (pc = "raised" /\ error.msg = "inconsistent endtime or npts") =>
           /\ error.kind = "Exception"
           /\ run_idx < Len(data_contiguous)
           /\ \A k \in 1..Len(data_contiguous[run_idx + 1]) :
                  data_contiguous[run_idx + 1][k][4] \notin Contributions(st)

\* C5 witness: a trace of two packets is returned
C5_Witness ==
    /\ pc = "returned"
    /\ \E t \in 1..Len(retval) : Len(retval[t].data) = 2

=============================================================================
